---------------------------- MODULE Spec2Model ----------------------------
(***************************************************************************)
(* A model of the record store of RAG-resume (src/storage.py): one         *)
(* MemoryStorage collection, the operations of execute_operation, the      *)
(* asyncio tasks that call add_item concurrently on one event loop, its    *)
(* transactions and its retry decorator; of the mock relevance scorer and  *)
(* the analyzer's path through the external model (src/rag_analyzer.py);   *)
(* and of the API handlers of src/main.py that create records and run an   *)
(* analysis.                                                               *)
(*                                                                         *)
(* Python values are tagged pairs, so that any two of them can be compared *)
(* as `==` compares them: None, str, a uuid4 string, a datetime.  A dict   *)
(* is a function from its keys to values; a list is a sequence.            *)
(***************************************************************************)
EXTENDS Integers, Sequences, FiniteSets, TLC

VARIABLES
    data,      \* MemoryStorage._data: the collection, a list of dicts
    now,       \* the wall clock read by datetime.now()
    nextId,    \* how many uuid4 values generate_item_id has produced
    last,      \* the last completed call of a sequential caller, with its outcome
    calls,     \* the add_item coroutines of the concurrent callers
    resume_storage,    \* main.py: the collection of resumes
    job_storage,       \* main.py: the collection of job descriptions
    analysis_storage,  \* main.py: the collection of analyses
    served,    \* the last request a handler of main.py served, with its response
    scored,    \* the inputs of the mock scorer and what its calls returned
    external,  \* the last call of RAGAnalyzer.analyze_resume_relevance
    txn,       \* the transaction in progress, or the last one that ended
    retry      \* the run of a function wrapped by retry_on_failure

appVars == <<resume_storage, job_storage, analysis_storage, served, scored>>

\* the analyzer call, the transaction and the retried function
auxVars == <<external, txn, retry>>

vars == <<data, now, nextId, last, calls, appVars, auxVars>>

(***************************************************************************)
(* Bounds of the model.                                                    *)
(***************************************************************************)
MaxLen == 2

MaxClock == 1

MaxIds == 2

\* the largest max_attempts given to retry_on_failure (its default)
MaxAttempts == 3

\* the largest years of experience of a candidate, and required by a job
MaxExperience == 4

MaxRequired == 3

(***************************************************************************)
(* Python values.                                                          *)
(***************************************************************************)
None == <<"none", 0>>

Str(n) == <<"str", n>>        \* Str(0) is the empty string ""

Uuid(n) == <<"uuid", n>>      \* the n-th string str(uuid.uuid4()) returns

Time(n) == <<"time", n>>      \* a datetime

\* bool(v): None and "" are falsy, every other value of the model is truthy
Truthy(v) == v # None /\ v # Str(0)

EmptyDict == [k \in {} |-> None]

\* operation.data / .filters / .updates left at its default None
NoDict == [none |-> None]

\* item.get(k)
Get(item, k) == IF k \in DOMAIN item THEN item[k] ELSE None

\* {**a, **b}
Merge(a, b) ==
    [k \in (DOMAIN a) \cup (DOMAIN b) |-> IF k \in DOMAIN b THEN b[k] ELSE a[k]]

\* d or {}
OrEmpty(d) == IF d = NoDict \/ d = EmptyDict THEN EmptyDict ELSE d

Range(s) == {s[i] : i \in 1..Len(s)}

(***************************************************************************)
(* The pure helpers of storage.py.                                         *)
(***************************************************************************)
generate_item_id(n) == Uuid(n + 1)

get_current_timestamp(clock) == Time(clock)

enrich_item_with_metadata(item, n, clock) ==
    Merge(item,
          [id         |-> IF Truthy(Get(item, "id"))
                          THEN Get(item, "id") ELSE generate_item_id(n),
           created_at |-> IF Truthy(Get(item, "created_at"))
                          THEN Get(item, "created_at")
                          ELSE get_current_timestamp(clock),
           updated_at |-> get_current_timestamp(clock)])

\* whether enrich_item_with_metadata calls generate_item_id: {**item, ...}
\* raises on None before the 'id' entry is evaluated
GeneratesId(item) == item # NoDict /\ ~Truthy(Get(item, "id"))

update_item_timestamp_swapped(updates, clock) ==
    Merge([updated_at |-> get_current_timestamp(clock)], updates)

update_item_timestamp(updates, clock) ==
    Merge(updates, [updated_at |-> get_current_timestamp(clock)])

predicate_any(filters, item) ==
    \E key \in DOMAIN filters : Get(item, key) = filters[key]

\* the predicate create_predicate_from_filters(filters) returns, applied to item
predicate(filters, item) ==
    \A key \in DOMAIN filters : Get(item, key) = filters[key]

(***************************************************************************)
(* StorageOperation and StorageResult.  dtype names the Python type of     *)
(* StorageResult.data, which the code leaves dynamic.                      *)
(***************************************************************************)
StorageOperation(action, d, filters, item_id, updates) ==
    [action |-> action, data |-> d, filters |-> filters,
     item_id |-> item_id, updates |-> updates]

StorageResult(dtype, d) ==
    [success |-> TRUE, dtype |-> dtype, data |-> d, error |-> "none"]

\* StorageResult(success=False, error=e, operation=operation)
Failure(error) ==
    [success |-> FALSE, dtype |-> "none", data |-> None, error |-> error]

is_success(result) == result.success /\ result.error = "none"

\* a call that fold makes: the branch, and the data or the error it is given
FoldCall(func, d, error) == [func |-> func, data |-> d, error |-> error]

\* `self.data is not None`: dtype is "none" exactly when the data is None
data_is_not_none(result) == result.dtype # "none"

fold_on_success(result) ==
    IF result.success
    THEN <<FoldCall("success_func", result.data, "none")>>
    ELSE <<FoldCall("error_func", None,
                    IF result.error # "none" THEN result.error
                    ELSE "Unknown error")>>

\* StorageResult.fold: the calls it makes of success_func and error_func; an
\* error that is None is replaced by Exception("Unknown error")
fold(result) ==
    IF result.success /\ data_is_not_none(result)
    THEN <<FoldCall("success_func", result.data, "none")>>
    ELSE <<FoldCall("error_func", None,
                    IF result.error # "none" THEN result.error
                    ELSE "Unknown error")>>

(***************************************************************************)
(* MemoryStorage.                                                          *)
(***************************************************************************)
\* _read_data: self._data.copy()
read_data(d) == d

\* _write_data: self._data = data.copy()
write_data(d, new_data) == new_data

\* Each branch of execute_operation gives the collection after the call,
\* the StorageResult, and the dict the caller passed as operation.data or
\* operation.filters, as the call leaves it (NoDict otherwise).
Outcome(d, result, arg) == [data |-> d, result |-> result, arg |-> arg]

read_all_drain(d) ==
    Outcome(write_data(d, <<>>), StorageResult("list", read_data(d)), NoDict)

read_all(d) ==
    Outcome(d, StorageResult("list", read_data(d)), NoDict)

add_item_inplace(d, item, n, clock) ==
    LET enriched_item == enrich_item_with_metadata(item, n, clock)
        new_data == read_data(d) \o <<enriched_item>>
    IN  IF item = NoDict
        THEN Outcome(d, Failure("TypeError"), item)
        ELSE Outcome(write_data(d, new_data),
                     StorageResult("id", enriched_item["id"]), enriched_item)

add_item_none_as_empty(d, item, n, clock) ==
    LET given == IF item = NoDict THEN EmptyDict ELSE item
        enriched_item == enrich_item_with_metadata(given, n, clock)
        new_data == read_data(d) \o <<enriched_item>>
    IN  Outcome(write_data(d, new_data),
                StorageResult("id", enriched_item["id"]), item)

\* enrich_item_with_metadata(None) raises TypeError, which the except clause
\* of execute_operation turns into a failed result
add_item(d, item, n, clock) ==
    LET enriched_item == enrich_item_with_metadata(item, n, clock)
        new_data == read_data(d) \o <<enriched_item>>
    IN  IF item = NoDict
        THEN Outcome(d, Failure("TypeError"), item)
        ELSE Outcome(write_data(d, new_data),
                     StorageResult("id", enriched_item["id"]), item)

\* the index of next((item for item in d if item.get('id') == item_id), None),
\* 0 for None
FirstWithId(d, item_id) ==
    LET hits == {i \in 1..Len(d) : Get(d[i], "id") = item_id}
    IN  IF hits = {} THEN 0
        ELSE CHOOSE i \in hits : \A j \in hits : i <= j

get_item(d, item_id) ==
    LET dd == read_data(d)
        i == FirstWithId(dd, item_id)
    IN  Outcome(d,
                IF i = 0 THEN StorageResult("none", None)
                ELSE StorageResult("item", dd[i]),
                NoDict)

update_single_item(item, item_id, updates, clock) ==
    IF Get(item, "id") = item_id
    THEN Merge(item, update_item_timestamp(OrEmpty(updates), clock))
    ELSE item

update_item_upsert(d, item_id, updates, clock) ==
    LET dd == read_data(d)
        updated_data ==
            [i \in 1..Len(dd) |-> update_single_item(dd[i], item_id, updates, clock)]
        was_updated == \E i \in 1..Len(dd) : Get(dd[i], "id") = item_id
        upserted == Merge([id |-> item_id],
                          update_item_timestamp(OrEmpty(updates), clock))
    IN  IF was_updated
        THEN Outcome(write_data(d, updated_data), StorageResult("bool", TRUE), NoDict)
        ELSE Outcome(write_data(d, dd \o <<upserted>>),
                     StorageResult("bool", FALSE), NoDict)

update_item(d, item_id, updates, clock) ==
    LET dd == read_data(d)
        updated_data ==
            [i \in 1..Len(dd) |-> update_single_item(dd[i], item_id, updates, clock)]
        was_updated == \E i \in 1..Len(dd) : Get(dd[i], "id") = item_id
    IN  IF was_updated
        THEN Outcome(write_data(d, updated_data), StorageResult("bool", TRUE), NoDict)
        ELSE Outcome(d, StorageResult("bool", FALSE), NoDict)

delete_item(d, item_id) ==
    LET dd == read_data(d)
        filtered_data == SelectSeq(dd, LAMBDA item : Get(item, "id") # item_id)
        was_deleted == Len(dd) # Len(filtered_data)
    IN  IF was_deleted
        THEN Outcome(write_data(d, filtered_data), StorageResult("bool", TRUE), NoDict)
        ELSE Outcome(d, StorageResult("bool", FALSE), NoDict)

find_items(d, filters) ==
    LET results == SelectSeq(read_data(d),
                             LAMBDA item : predicate(OrEmpty(filters), item))
    IN  Outcome(d, StorageResult("list", results), filters)

\* the argument None of write_all
NoList == <<NoDict>>

\* write_all: _write_data(data) replaces the whole collection with a copy of
\* the list it is given, as it is: no record is enriched and no id is drawn.
\* None has no copy(): the AttributeError becomes a failed result and the
\* collection stays
write_all(d, new_data) ==
    IF new_data = NoList
    THEN Outcome(d, Failure("AttributeError"), NoDict)
    ELSE Outcome(write_data(d, new_data), StorageResult("bool", TRUE), NoDict)

execute_operation(d, operation, n, clock) ==
    CASE operation.action = "read_all" -> read_all(d)
      [] operation.action = "add_item" -> add_item(d, operation.data, n, clock)
      [] operation.action = "get_item" -> get_item(d, operation.item_id)
      [] operation.action = "update_item" ->
            update_item(d, operation.item_id, operation.updates, clock)
      [] operation.action = "delete_item" -> delete_item(d, operation.item_id)
      [] operation.action = "find_items" -> find_items(d, operation.filters)
      [] OTHER -> Outcome(d, Failure("ValueError"), NoDict)

(***************************************************************************)
(* What callers pass in.                                                   *)
(***************************************************************************)
\* the caller's own fields
Payloads == {EmptyDict, [name |-> Str(1)], [name |-> Str(2)]}

\* the store's metadata keys, as a caller may supply them
Metadata ==
    {EmptyDict,
     [id |-> Str(0)],
     [id |-> Str(1)],
     [created_at |-> Str(1), updated_at |-> Str(1)]}

FieldMaps == {Merge(p, m) : p \in Payloads, m \in Metadata}

\* what add_item is given: a field map, or None
AddInputs == FieldMaps \cup {NoDict}

FilterMaps ==
    {EmptyDict, [name |-> Str(1)], [name |-> None], [id |-> Str(1), name |-> Str(1)]}

\* the actions of execute_operation, and one it does not know
KnownActions ==
    {"read_all", "add_item", "get_item", "update_item", "delete_item",
     "find_items"}

UnknownActions == {"drop_all"}

\* what write_all is given: lists of dicts as the callers build them, which
\* need not carry the store's metadata nor distinct ids, or None
WrittenLists ==
    {<<>>,
     <<[name |-> Str(1)]>>,
     <<[id |-> Str(1)], [id |-> Str(1), name |-> Str(2)]>>,
     NoList}

\* the ids a caller may address: those in the collection, and one that is not
ItemIds(d) == {Get(d[i], "id") : i \in 1..Len(d)} \cup {Str(2)}

(***************************************************************************)
(* The sequential caller: each action is one awaited MemoryStorage call.   *)
(***************************************************************************)
Callers == {1, 2}

\* an add_item coroutine: where it stands, the dict it was given, and its
\* locals enriched_item and data (the list _read_data returned)
Idle ==
    [pc |-> "idle", item |-> NoDict, enriched_item |-> NoDict, snapshot |-> <<>>,
     result |-> StorageResult("none", None), overlapped |-> FALSE]

\* the caller holds nothing
Nothing ==
    [op |-> StorageOperation("none", NoDict, NoDict, None, NoDict),
     result |-> StorageResult("none", None), arg |-> NoDict, again |-> FALSE]

\* no handler has served a request yet
NotServed ==
    [handler |-> "none", request |-> NoDict, status |-> 0, body |-> NoDict,
     analyzed |-> FALSE]

\* the scorer has no inputs and has not been called
NotScored ==
    [resume |-> NoDict, job_description |-> NoDict, result |-> NoDict,
     earlier |-> NoDict]

\* analyze_resume_relevance has not been called
NotAnalyzed ==
    [use_mock |-> TRUE, response |-> NoDict, resume |-> NoDict,
     job_description |-> NoDict, result |-> NoDict, raised |-> FALSE]

\* no transaction has begun
NoTransaction ==
    [pc |-> "none", kind |-> "none", operations |-> <<>>, original_data |-> <<>>,
     executed |-> 0, result |-> StorageResult("results", <<>>), raised |-> FALSE,
     others |-> <<>>]

\* no wrapped function has been run
NotRun ==
    [pc |-> "none", max_attempts |-> 0, outcomes |-> <<>>, invoked |-> 0,
     last_exception |-> None, returned |-> None, raised |-> None]

Init ==
    /\ data = <<>>
    /\ now = 0
    /\ nextId = 0
    /\ last = Nothing
    /\ calls = [c \in Callers |-> Idle]
    /\ resume_storage = <<>>
    /\ job_storage = <<>>
    /\ analysis_storage = <<>>
    /\ served = NotServed
    /\ scored = NotScored
    /\ external = NotAnalyzed
    /\ txn = NoTransaction
    /\ retry = NotRun

\* The caller awaits one call at a time.  What it holds of its last call has
\* no effect on the store, so it lets go of it before it calls again, unless
\* the next call is one of the two follow-ups that are compared with the call
\* before: get_item right after add_item, read_all right after read_all.
CanCall(action) ==
    \/ last.op.action = "none"
    \/ last.op.action = "add_item" /\ action = "get_item"
    \/ last.op.action = "read_all" /\ action = "read_all"

\* one call of execute_operation, run to completion; last keeps the operation,
\* what the caller holds afterwards, and whether this was a read_all right
\* after a read_all
Execute(operation) ==
    LET out == execute_operation(data, operation, nextId, now)
    IN  /\ CanCall(operation.action)
        /\ data' = out.data
        /\ last' = [op |-> operation, result |-> out.result, arg |-> out.arg,
                    again |-> (operation.action = "read_all"
                               /\ last.op.action = "read_all")]
        /\ UNCHANGED <<now, calls, appVars, auxVars>>

AddItem(item) ==
    /\ item # NoDict => Len(data) < MaxLen
    /\ GeneratesId(item) => nextId < MaxIds
    /\ Execute(StorageOperation("add_item", item, NoDict, None, NoDict))
    /\ nextId' = IF GeneratesId(item) THEN nextId + 1 ELSE nextId

ReadAll ==
    /\ Execute(StorageOperation("read_all", NoDict, NoDict, None, NoDict))
    /\ UNCHANGED nextId

GetItem(item_id) ==
    /\ Execute(StorageOperation("get_item", NoDict, NoDict, item_id, NoDict))
    /\ UNCHANGED nextId

UpdateItem(item_id, updates) ==
    /\ Execute(StorageOperation("update_item", NoDict, NoDict, item_id, updates))
    /\ UNCHANGED nextId

DeleteItem(item_id) ==
    /\ Execute(StorageOperation("delete_item", NoDict, NoDict, item_id, NoDict))
    /\ UNCHANGED nextId

FindItems(filters) ==
    /\ Execute(StorageOperation("find_items", NoDict, filters, None, NoDict))
    /\ UNCHANGED nextId

\* an operation whose action execute_operation does not know
UnknownOperation(action) ==
    /\ Execute(StorageOperation(action, NoDict, NoDict, None, NoDict))
    /\ UNCHANGED nextId

\* one awaited call of write_all; it builds no StorageOperation, and last.op
\* names the call
WriteAll(new_data) ==
    LET out == write_all(data, new_data)
    IN  /\ CanCall("write_all")
        /\ data' = out.data
        /\ last' = [op |-> StorageOperation("write_all", NoDict, NoDict, None,
                                            NoDict),
                    result |-> out.result, arg |-> out.arg, again |-> FALSE]
        /\ UNCHANGED <<now, nextId, calls, appVars, auxVars>>

\* the caller lets go of the outcome of its last call
Forget ==
    /\ last.op.action # "none"
    /\ last' = Nothing
    /\ UNCHANGED <<data, now, nextId, calls, appVars, auxVars>>

\* time passes between calls
Tick ==
    /\ now < MaxClock
    /\ now' = now + 1
    /\ UNCHANGED <<data, nextId, last, calls, appVars, auxVars>>

Next ==
    \/ \E item \in AddInputs : AddItem(item)
    \/ ReadAll
    \/ \E item_id \in ItemIds(data) : GetItem(item_id)
    \/ \E item_id \in ItemIds(data), updates \in FieldMaps : UpdateItem(item_id, updates)
    \/ \E item_id \in ItemIds(data) : DeleteItem(item_id)
    \/ \E filters \in FilterMaps : FindItems(filters)
    \/ \E action \in UnknownActions : UnknownOperation(action)
    \/ \E new_data \in WrittenLists : WriteAll(new_data)
    \/ Forget
    \/ Tick

Spec == Init /\ [][Next]_vars

(***************************************************************************)
(* Concurrent callers: add_item coroutines as tasks of one asyncio event   *)
(* loop.  A task runs until it awaits something that suspends; awaiting a  *)
(* coroutine that itself never suspends does not give the loop control.    *)
(***************************************************************************)
read_data_yields == TRUE

\* whether `await self._read_data()` suspends the caller: its body is one
\* return statement
read_data_suspends == FALSE

\* whether `await self._write_data(new_data)` suspends the caller: its body
\* is one assignment
write_data_suspends == FALSE

InFlight(call) == call.pc \in {"ready", "read", "written"}

\* lines 226-228 of execute_operation, from the write on
AddItemWrite(call, d) ==
    LET new_data == call.snapshot \o <<call.enriched_item>>
        result == StorageResult("id", call.enriched_item["id"])
    IN  [data |-> write_data(d, new_data),
         call |-> IF write_data_suspends
                  THEN [call EXCEPT !.pc = "written"]
                  ELSE [call EXCEPT !.pc = "done", !.result = result]]

\* lines 224-225: enrich, then read the whole collection
AddItemRead(call, d, n, clock) ==
    LET started == [call EXCEPT
                      !.enriched_item = enrich_item_with_metadata(call.item, n, clock),
                      !.snapshot = read_data(d)]
    IN  IF read_data_suspends
        THEN [data |-> d, call |-> [started EXCEPT !.pc = "read"]]
        ELSE AddItemWrite(started, d)

\* the coroutine runs from where it stands to its next suspension or its return
RunAddItem(call, d, n, clock) ==
    CASE call.pc = "ready" -> AddItemRead(call, d, n, clock)
      [] call.pc = "read" -> AddItemWrite(call, d)
      [] call.pc = "written" ->
            [data |-> d,
             call |-> [call EXCEPT !.pc = "done",
                          !.result = StorageResult("id", call.enriched_item["id"])]]

\* caller c creates the task add_item(item)
Call(c, item) ==
    /\ calls[c].pc = "idle"
    /\ Len(data) + Cardinality({o \in Callers : InFlight(calls[o])}) < MaxLen
    /\ LET others == \E o \in Callers : InFlight(calls[o])
       IN  calls' = [o \in Callers |->
                       IF o = c
                       THEN [Idle EXCEPT !.pc = "ready", !.item = item,
                                         !.overlapped = others]
                       ELSE IF InFlight(calls[o])
                            THEN [calls[o] EXCEPT !.overlapped = TRUE]
                            ELSE calls[o]]
    /\ UNCHANGED <<data, now, nextId, last, appVars, auxVars>>

\* the event loop resumes the task of caller c
Resume(c) ==
    /\ InFlight(calls[c])
    /\ (calls[c].pc = "ready" /\ GeneratesId(calls[c].item)) => nextId < MaxIds
    /\ LET out == RunAddItem(calls[c], data, nextId, now)
       IN  /\ data' = out.data
           /\ calls' = [calls EXCEPT ![c] = out.call]
    /\ nextId' = IF calls[c].pc = "ready" /\ GeneratesId(calls[c].item)
                 THEN nextId + 1 ELSE nextId
    /\ UNCHANGED <<now, last, appVars, auxVars>>

\* caller c takes the result of its finished task
Return(c) ==
    /\ calls[c].pc = "done"
    /\ calls' = [calls EXCEPT ![c] = Idle]
    /\ UNCHANGED <<data, now, nextId, last, appVars, auxVars>>

NextConc ==
    \/ \E c \in Callers, item \in FieldMaps : Call(c, item)
    \/ \E c \in Callers : Resume(c)
    \/ \E c \in Callers : Return(c)

SpecConc == Init /\ [][NextConc]_vars

(***************************************************************************)
(* Transactions: MemoryStorage.transactional_operation, which runs a       *)
(* sequence of operations and writes its snapshot back when one fails, and *)
(* the decorator with_transaction, which writes its snapshot back when the *)
(* function it wraps raises.  Neither _read_data nor _write_data suspends, *)
(* so transactional_operation runs from its snapshot to its return without *)
(* another task in between; a function wrapped by with_transaction is the  *)
(* caller's and may await anything.                                        *)
(***************************************************************************)
\* how many uuid4 values execute_operation draws for the operation
Draws(operation) ==
    IF operation.action = "add_item" /\ GeneratesId(operation.data) THEN 1 ELSE 0

\* the loop of transactional_operation from the i-th operation on: the
\* collection it leaves, the results it appended, whether it met a failed
\* result, and the uuid4 values drawn
RECURSIVE run_operations(_, _, _, _, _)
run_operations(d, operations, i, n, clock) ==
    IF i > Len(operations)
    THEN [data |-> d, results |-> <<>>, failed |-> FALSE, ids |-> 0]
    ELSE LET result == execute_operation(d, operations[i], n, clock)
             drawn == Draws(operations[i])
             rest == run_operations(result.data, operations, i + 1, n + drawn,
                                    clock)
         IN  IF ~is_success(result.result)
             THEN [data |-> result.data, results |-> <<result.result>>,
                   failed |-> TRUE, ids |-> drawn]
             ELSE [rest EXCEPT !.results = <<result.result>> \o @,
                               !.ids = @ + drawn]

\* StorageResult(success=False, error=Exception("Transaction failed"),
\*               data=results)
TransactionFailed(results) ==
    [success |-> FALSE, dtype |-> "results", data |-> results,
     error |-> "Transaction failed"]

transactional_operation_no_rollback(d, operations, n, clock) ==
    LET run == run_operations(d, operations, 1, n, clock)
    IN  IF run.failed
        THEN [data |-> run.data, result |-> TransactionFailed(run.results),
              ids |-> run.ids]
        ELSE [data |-> run.data, result |-> StorageResult("results", run.results),
              ids |-> run.ids]

transactional_operation(d, operations, n, clock) ==
    LET original_data == read_data(d)
        run == run_operations(d, operations, 1, n, clock)
    IN  IF run.failed
        THEN [data |-> write_data(run.data, original_data),
              result |-> TransactionFailed(run.results), ids |-> run.ids]
        ELSE [data |-> run.data, result |-> StorageResult("results", run.results),
              ids |-> run.ids]

\* a statement of a function wrapped by with_transaction: a call of the
\* store, an await that suspends the function, or a raise
Statement(stmt, operation) == [stmt |-> stmt, operation |-> operation]

NoOperation == StorageOperation("none", NoDict, NoDict, None, NoDict)

CallStore(operation) == Statement("call", operation)

Suspend == Statement("suspend", NoOperation)

Raise == Statement("raise", NoOperation)

\* the wrapped function runs from its i-th statement to its next suspension,
\* its raise or its return
RECURSIVE run_function(_, _, _, _, _)
run_function(d, body, i, n, clock) ==
    IF i > Len(body)
    THEN [data |-> d, pc |-> "returned", executed |-> i - 1, ids |-> 0]
    ELSE CASE body[i].stmt = "suspend" ->
                [data |-> d, pc |-> "suspended", executed |-> i, ids |-> 0]
           [] body[i].stmt = "raise" ->
                [data |-> d, pc |-> "raised", executed |-> i, ids |-> 0]
           [] body[i].stmt = "call" ->
                LET result == execute_operation(d, body[i].operation, n, clock)
                    drawn == Draws(body[i].operation)
                    rest == run_function(result.data, body, i + 1, n + drawn,
                                         clock)
                IN  [rest EXCEPT !.ids = @ + drawn]

\* the wrapper of with_transaction from where the wrapped function stands:
\* `except Exception` writes original_data back and raises again
with_transaction(d, transaction, n, clock) ==
    LET run == run_function(d, transaction.operations, transaction.executed + 1,
                            n, clock)
    IN  IF run.pc = "raised"
        THEN [data |-> write_data(run.data, transaction.original_data),
              transaction |-> [transaction EXCEPT !.pc = "rolled_back",
                                                  !.executed = run.executed,
                                                  !.raised = TRUE],
              ids |-> run.ids]
        ELSE [data |-> run.data,
              transaction |-> [transaction EXCEPT !.pc = run.pc,
                                                  !.executed = run.executed],
              ids |-> run.ids]

(***************************************************************************)
(* The operations of a transaction, and the callers of the store.          *)
(***************************************************************************)
TransactionOperations ==
    {StorageOperation("add_item", [name |-> Str(1)], NoDict, None, NoDict),
     StorageOperation("add_item", [id |-> Str(1), name |-> Str(1)], NoDict,
                      None, NoDict),
     StorageOperation("add_item", NoDict, NoDict, None, NoDict),
     StorageOperation("drop_all", NoDict, NoDict, None, NoDict),
     StorageOperation("get_item", NoDict, NoDict, Str(2), NoDict),
     StorageOperation("delete_item", NoDict, NoDict, Str(1), NoDict)}

\* the operations that return a failed result
FailingOperations ==
    {operation \in TransactionOperations :
        \/ operation.action \notin KnownActions
        \/ operation.action = "add_item" /\ operation.data = NoDict}

\* the sequences of at most two operations, and those of three whose second
\* operation fails and whose third adds a record
Transactions ==
    {<<>>}
        \cup {<<a>> : a \in TransactionOperations}
        \cup {<<a, b>> : a \in TransactionOperations, b \in TransactionOperations}
        \cup {<<a, f, b>> : a \in TransactionOperations, f \in FailingOperations,
                            b \in {operation \in TransactionOperations :
                                      operation.data = [name |-> Str(1)]}}

\* how many records the operations may add
Adds(operations) ==
    Cardinality({i \in 1 .. Len(operations) :
                    /\ operations[i].action = "add_item"
                    /\ operations[i].data # NoDict})

\* the functions a caller wraps: the transfer_data of example_usage, and
\* functions that add a record and raise, with and without an await between
TransactionBodies ==
    LET add_new == CallStore(StorageOperation("add_item", [name |-> Str(1)],
                                              NoDict, None, NoDict))
        delete_old == CallStore(StorageOperation("delete_item", NoDict, NoDict,
                                                 Str(1), NoDict))
    IN  {<<delete_old, add_new>>,
         <<add_new, Raise>>,
         <<add_new, Suspend, Raise>>,
         <<Suspend, delete_old, Raise>>,
         <<add_new, Suspend>>}

BodyOperations(body) ==
    [i \in 1 .. Len(body) |-> body[i].operation]

\* no transaction stands at an await
NotSuspended == txn.pc # "suspended"

\* a result without its data, and the result of a transaction with the
\* results of its operations without theirs
Brief(result) ==
    [success |-> result.success, dtype |-> result.dtype, data |-> None,
     error |-> result.error]

BriefResults(result) ==
    [result EXCEPT !.data = [i \in 1 .. Len(result.data) |-> Brief(result.data[i])]]

\* one call of transactional_operation, run to completion; txn keeps the
\* outcome of each operation, not the data it returned
TransactionalOperation(operations) ==
    LET out == transactional_operation(data, operations, nextId, now)
    IN  /\ NotSuspended
        /\ Len(data) + Adds(operations) <= MaxLen + 1
        /\ Len(out.data) <= MaxLen
        /\ nextId + out.ids <= MaxIds
        /\ data' = out.data
        /\ nextId' = nextId + out.ids
        /\ txn' = [NoTransaction EXCEPT
                     !.pc = IF is_success(out.result) THEN "returned"
                                                      ELSE "rolled_back",
                     !.kind = "transactional_operation",
                     !.operations = operations,
                     !.original_data = read_data(data),
                     !.executed = Len(out.result.data),
                     !.result = BriefResults(out.result)]
        /\ UNCHANGED <<now, last, calls, appVars, external, retry>>

\* the wrapper of with_transaction runs: from the call to the first
\* suspension of the function, or from one suspension to the next
RunWrapper(transaction) ==
    LET out == with_transaction(data, transaction, nextId, now)
    IN  /\ Len(data) + Adds(BodyOperations(transaction.operations)) <= MaxLen + 1
        /\ Len(out.data) <= MaxLen
        /\ nextId + out.ids <= MaxIds
        /\ data' = out.data
        /\ nextId' = nextId + out.ids
        /\ txn' = out.transaction
        /\ UNCHANGED <<now, last, calls, appVars, external, retry>>

\* a caller calls a function that with_transaction wraps
WithTransaction(body) ==
    /\ NotSuspended
    /\ RunWrapper([NoTransaction EXCEPT !.pc = "called",
                                        !.kind = "with_transaction",
                                        !.operations = body,
                                        !.original_data = read_data(data)])

\* the event loop resumes the wrapped function
ResumeFunction ==
    /\ txn.pc = "suspended"
    /\ RunWrapper(txn)

\* another caller's add_item, run to completion; others keeps the records
\* that were added while the wrapped function was suspended
OtherAddItem(item) ==
    LET out == add_item(data, item, nextId, now)
    IN  /\ Len(data) < MaxLen
        /\ nextId < MaxIds
        /\ data' = out.data
        /\ nextId' = nextId + 1
        /\ txn' = IF txn.pc = "suspended"
                  THEN [txn EXCEPT !.others = @ \o <<data'[Len(data')]>>]
                  ELSE txn
        /\ UNCHANGED <<now, last, calls, appVars, external, retry>>

NextTxn ==
    \/ \E operations \in Transactions : TransactionalOperation(operations)
    \/ \E body \in TransactionBodies : WithTransaction(body)
    \/ ResumeFunction
    \/ OtherAddItem([name |-> Str(2)])
    \/ Tick

SpecTxn == Init /\ [][NextTxn]_vars

(***************************************************************************)
(* retry_on_failure: the wrapper calls the function once per iteration of  *)
(* `for attempt in range(max_attempts)`.  The function is given by what    *)
(* each of its invocations does: the k-th returns the value k or raises    *)
(* the exception k.                                                        *)
(***************************************************************************)
Value(k) == <<"value", k>>

Raises(k) == <<"exception", k>>

\* Exception("All storage attempts failed")
AllAttemptsFailed == <<"exception", 0>>

\* raise last_exception or Exception("All storage attempts failed")
raise_last(run) ==
    [run EXCEPT !.pc = "raised",
                !.raised = IF run.last_exception # None
                           THEN run.last_exception ELSE AllAttemptsFailed]

\* wrapper(*args, **kwargs) up to the first invocation: an empty range
\* leaves the loop at once
wrapper(max_attempts, outcomes) ==
    LET run == [NotRun EXCEPT !.pc = "running", !.max_attempts = max_attempts,
                              !.outcomes = outcomes]
    IN  IF max_attempts <= 0 THEN raise_last(run) ELSE run

attempt_once_more(run) ==
    LET attempt == run.invoked
        k == run.invoked + 1
    IN  IF run.outcomes[k] = Value(k)
        THEN [run EXCEPT !.pc = "returned", !.invoked = k, !.returned = Value(k)]
        ELSE LET failed == [run EXCEPT !.invoked = k, !.last_exception = Raises(k)]
             IN  IF attempt = run.max_attempts
                 THEN raise_last(failed)
                 ELSE failed

\* one iteration of the loop: the function is invoked; its value is
\* returned, or its exception is kept and, after the last attempt, raised
attempt(run) ==
    LET this == run.invoked
        k == run.invoked + 1
    IN  IF run.outcomes[k] = Value(k)
        THEN [run EXCEPT !.pc = "returned", !.invoked = k, !.returned = Value(k)]
        ELSE LET failed == [run EXCEPT !.invoked = k, !.last_exception = Raises(k)]
             IN  IF this = run.max_attempts - 1
                 THEN raise_last(failed)
                 ELSE failed

\* the functions: what each of the first MaxAttempts + 1 invocations does
Functions ==
    {outcomes \in [1 .. MaxAttempts + 1 -> {"value", "exception"} \X (1 .. MaxAttempts + 1)] :
        \A k \in 1 .. MaxAttempts + 1 : outcomes[k][2] = k}

\* a caller calls a function wrapped by retry_on_failure(max_attempts)
CallWrapped(max_attempts, outcomes) ==
    /\ retry.pc \in {"none", "returned", "raised"}
    /\ retry' = wrapper(max_attempts, outcomes)
    /\ UNCHANGED <<data, now, nextId, last, calls, appVars, external, txn>>

\* the wrapper awaits the function once more
Attempt ==
    /\ retry.pc = "running"
    /\ retry.invoked < MaxAttempts + 1
    /\ retry' = attempt(retry)
    /\ UNCHANGED <<data, now, nextId, last, calls, appVars, external, txn>>

NextRetry ==
    \/ \E max_attempts \in -1 .. MaxAttempts, outcomes \in Functions :
          CallWrapped(max_attempts, outcomes)
    \/ Attempt

SpecRetry == Init /\ [][NextRetry]_vars

(***************************************************************************)
(* The mock relevance scorer (src/rag_analyzer.py).  A Python float is the *)
(* rational it stands for, num/den with den > 0; round(x, ndigits) rounds  *)
(* half to even, as Python rounds, and yields a rational over 10^ndigits.  *)
(* Within the bounds of the model the double arithmetic of the code and    *)
(* the rational arithmetic agree on every input.                           *)
(***************************************************************************)
Rat(n, d) == [num |-> n, den |-> d]

\* float(n) of an int
Float(n) == Rat(n, 1)

RatMul(a, b) == Rat(a.num * b.num, a.den * b.den)

\* a / b for b > 0
RatDiv(a, b) == Rat(a.num * b.den, a.den * b.num)

RatAdd(a, b) == Rat(a.num * b.den + b.num * a.den, a.den * b.den)

RatLeq(a, b) == a.num * b.den <= b.num * a.den

\* min(a, b) and max(a, b) of Python: the first of the smallest (largest)
RatMin(a, b) == IF RatLeq(a, b) THEN a ELSE b

max(a, b) == IF b > a THEN b ELSE a

RECURSIVE Pow10(_)
Pow10(k) == IF k = 0 THEN 1 ELSE 10 * Pow10(k - 1)

\* the integer nearest to n/d (d > 0), ties to the even one
RoundHalfEven(n, d) ==
    LET q == n \div d
        r == n % d
    IN  IF 2 * r > d \/ (2 * r = d /\ q % 2 = 1) THEN q + 1 ELSE q

round(x, ndigits) ==
    Rat(RoundHalfEven(x.num * Pow10(ndigits), x.den), Pow10(ndigits))

\* models.Resume and models.JobDescription, with the attributes the scorer
\* reads
models_Resume(id, name, experience, skills) ==
    [id |-> id, name |-> name, experience |-> experience, skills |-> skills]

models_JobDescription(id, skills_required, experience_required) ==
    [id |-> id, skills_required |-> skills_required,
     experience_required |-> experience_required]

\* len(set(resume.skills) & set(job_description.skills_required))
skills_match(resume, job_description) ==
    Cardinality(Range(resume.skills) \cap Range(job_description.skills_required))

total_required_skills(job_description) ==
    max(Len(job_description.skills_required), 1)

skill_match_percentage(resume, job_description) ==
    RatMul(RatDiv(Float(skills_match(resume, job_description)),
                  Float(total_required_skills(job_description))),
           Float(100))

experience_match_uncapped(resume, job_description) ==
    RatDiv(Float(resume.experience),
           Float(max(job_description.experience_required, 1)))

experience_match_none_required(resume, job_description) ==
    IF job_description.experience_required = 0
    THEN Float(1)
    ELSE RatMin(RatDiv(Float(resume.experience),
                       Float(max(job_description.experience_required, 1))),
                Float(1))

experience_match(resume, job_description) ==
    RatMin(RatDiv(Float(resume.experience),
                  Float(max(job_description.experience_required, 1))),
           Float(1))

overall_score(resume, job_description) ==
    RatDiv(RatAdd(skill_match_percentage(resume, job_description),
                  RatMul(experience_match(resume, job_description), Float(100))),
           Float(200))

\* the dict calculate_mock_analysis returns from the overall score; an
\* f-string is the tuple of its template and the values it embeds
mock_analysis_data(resume, job_description, score) ==
    [relevance_score |-> round(score, 2),
     strengths |-> << <<"skills match: {}/{}",
                        skills_match(resume, job_description),
                        total_required_skills(job_description)>>,
                      <<"experience: {} years", resume.experience>> >>,
     weaknesses |-> <<"soft skills need an assessment",
                      "education needs to be checked">>,
     recommendations |-> <<"technical interview", "assess motivation">>,
     job_match_percentage |-> round(RatMul(score, Float(100)), 1),
     analysis_text |-> <<"candidate {} has {} of {} skills and {} years",
                         resume.name,
                         skills_match(resume, job_description),
                         total_required_skills(job_description),
                         resume.experience>>]

calculate_mock_analysis_vacuous(resume, job_description) ==
    mock_analysis_data(resume, job_description,
        IF job_description.skills_required = <<>>
        THEN RatDiv(RatAdd(Float(100),
                           RatMul(experience_match(resume, job_description),
                                  Float(100))),
                    Float(200))
        ELSE overall_score(resume, job_description))

calculate_mock_analysis_rerounded(resume, job_description) ==
    LET d == mock_analysis_data(resume, job_description,
                                overall_score(resume, job_description))
    IN  [d EXCEPT !.job_match_percentage =
                      round(RatMul(d.relevance_score, Float(100)), 1)]

calculate_mock_analysis(resume, job_description) ==
    mock_analysis_data(resume, job_description,
                       overall_score(resume, job_description))

\* AnalysisResult(id=str(uuid.uuid4()), ..., created_at=datetime.now())
create_analysis_result_from_data(d, resume, n, clock) ==
    [id |-> Uuid(n + 1),
     resume_id |-> resume.id,
     relevance_score |-> d.relevance_score,
     strengths |-> d.strengths,
     weaknesses |-> d.weaknesses,
     recommendations |-> d.recommendations,
     job_match_percentage |-> d.job_match_percentage,
     analysis_text |-> d.analysis_text,
     created_at |-> Time(clock)]

create_mock_analysis_result(resume, job_description, n, clock) ==
    create_analysis_result_from_data(
        calculate_mock_analysis(resume, job_description), resume, n, clock)

(***************************************************************************)
(* The scorer's inputs, and its calls on them.                             *)
(***************************************************************************)
SkillLists ==
    {<<>>, <<"X">>, <<"Python">>, <<"Python", "Django">>,
     <<"Django", "Python", "Python">>,
     <<"Python", "Django", "PostgreSQL", "Docker", "Git">>}

RequiredSkillLists ==
    {<<>>, <<"Python">>, <<"Python", "Python">>,
     <<"Python", "Django", "PostgreSQL">>,
     <<"Python", "Django", "PostgreSQL", "Redis">>,
     <<"Python", "Django", "PostgreSQL", "Docker", "Redis">>}

\* pydantic's int accepts any integer
Experiences == -1 .. MaxExperience

RequiredExperiences == -1 .. MaxRequired

Resumes ==
    {models_Resume(Str(1), Str(1), e, s) : e \in Experiences, s \in SkillLists}

JobDescriptions ==
    {models_JobDescription(Str(2), s, e) : s \in RequiredSkillLists,
                                    e \in RequiredExperiences}

InitScore ==
    /\ data = <<>>
    /\ now = 0
    /\ nextId = 0
    /\ last = Nothing
    /\ calls = [c \in Callers |-> Idle]
    /\ resume_storage = <<>>
    /\ job_storage = <<>>
    /\ analysis_storage = <<>>
    /\ served = NotServed
    /\ external = NotAnalyzed
    /\ txn = NoTransaction
    /\ retry = NotRun
    /\ \E resume \in Resumes, job_description \in JobDescriptions :
          scored = [NotScored EXCEPT !.resume = resume,
                                     !.job_description = job_description]

\* one call of the scorer on the inputs; the result of the call before it is
\* kept for comparison
Score ==
    /\ nextId < MaxIds
    /\ scored' = [scored EXCEPT
                    !.earlier = scored.result,
                    !.result = create_mock_analysis_result(
                                   scored.resume, scored.job_description,
                                   nextId, now)]
    /\ nextId' = nextId + 1
    /\ UNCHANGED <<data, now, last, calls, resume_storage, job_storage,
                   analysis_storage, served, auxVars>>

NextScore ==
    \/ Score
    \/ Tick

SpecScore == InitScore /\ [][NextScore]_vars

(***************************************************************************)
(* The analyzer (src/rag_analyzer.py, RAGAnalyzer): the mock path and the  *)
(* path through the external language model.  The content the model sends  *)
(* back is a sequence of tokens: a brace, a "key": value member of an      *)
(* object, or a run of other text.  A value decoded from JSON carries its  *)
(* JSON type, <<"number", x>>, <<"string", s>> or <<"array", l>>.          *)
(***************************************************************************)
Token(tok, key, value) == [tok |-> tok, key |-> key, value |-> value]

OpenBrace == Token("{", "", None)

CloseBrace == Token("}", "", None)

Text == Token("text", "", None)

Member(key, value) == Token("member", key, value)

\* str.find and str.rfind of a one-character string: an index from 0, or -1
find(response, tok) ==
    LET hits == {i \in 1 .. Len(response) : response[i].tok = tok}
    IN  IF hits = {} THEN -1
        ELSE (CHOOSE i \in hits : \A j \in hits : i <= j) - 1

rfind(response, tok) ==
    LET hits == {i \in 1 .. Len(response) : response[i].tok = tok}
    IN  IF hits = {} THEN -1
        ELSE (CHOOSE i \in hits : \A j \in hits : j <= i) - 1

\* response[start:end] for 0 <= start
slice(response, start, end) == SubSeq(response, start + 1, end)

\* json.loads of a text that begins with a brace: an object of members, or
\* JSONDecodeError; a key that is repeated keeps its last value
json_loads(json_str) ==
    LET n == Len(json_str)
        well_formed ==
            /\ n >= 2
            /\ json_str[1].tok = "{"
            /\ json_str[n].tok = "}"
            /\ \A i \in 2 .. n - 1 : json_str[i].tok = "member"
        keys == {json_str[i].key : i \in 2 .. n - 1}
        last_of(k) == CHOOSE i \in 2 .. n - 1 :
                          /\ json_str[i].key = k
                          /\ \A j \in 2 .. n - 1 : json_str[j].key = k => j <= i
    IN  IF well_formed
        THEN [error |-> "none", value |-> [k \in keys |-> json_str[last_of(k)].value]]
        ELSE [error |-> "JSONDecodeError", value |-> NoDict]

\* Maybe(parsed_data), or Maybe(None), which is NoDict here
parse_response_safe(response) ==
    LET start_idx == find(response, "{")
        end_idx == rfind(response, "}") + 1
        parsed == json_loads(slice(response, start_idx, end_idx))
    IN  IF start_idx = -1 \/ end_idx = 0 THEN NoDict
        ELSE IF parsed.error # "none" THEN NoDict
        ELSE parsed.value

get_default_analysis ==
    [relevance_score |-> Rat(5, 10),
     strengths |-> <<"more analysis is needed">>,
     weaknesses |-> <<"the full analysis could not be made">>,
     recommendations |-> <<"assess by hand">>,
     job_match_percentage |-> Float(50),
     analysis_text |-> <<"the analysis could not be completed automatically">>]

\* the fields of AnalysisResult that come from the data, with the JSON type
\* each of them takes
AnalysisFields ==
    [relevance_score |-> "number", strengths |-> "array",
     weaknesses |-> "array", recommendations |-> "array",
     job_match_percentage |-> "number", analysis_text |-> "string"]

\* a dict the program built itself, as the values json.loads would give
Typed(d) == [k \in DOMAIN d |-> <<AnalysisFields[k], d[k]>>]

Untyped(d) == [k \in DOMAIN AnalysisFields |-> d[k][2]]

\* bool(d) of a dict that may be None
dict_truthy(d) == d # NoDict /\ DOMAIN d # {}

\* or_else of Maybe
or_else(value, default) == IF value = NoDict THEN default ELSE value

\* AnalysisResultM: the parsed_data of its context (the resume and the job of
\* the context never change), its result and its error, "none" for None
AnalysisResultM(parsed_data, result, error) ==
    [parsed_data |-> parsed_data, result |-> result, error |-> error]

\* what analyze_resume_relevance gives its caller, and how many uuid4 values
\* it drew
Returned(result, ids) == [raised |-> FALSE, result |-> result, ids |-> ids]

Raised(ids) == [raised |-> TRUE, result |-> NoDict, ids |-> ids]

\* Maybe(content) of the reply, Maybe(None) when the call raised; None is
\* NoDict here
call_openai_api_safe(reply) ==
    IF reply.raises \/ ~reply.has_content THEN NoDict
    ELSE [value |-> reply.content]

mock_analysis_safe(resume, job_description) ==
    AnalysisResultM(Typed(calculate_mock_analysis(resume, job_description)),
                    NoDict, "none")

analyze_with_rag_safe(use_mock, reply, resume, job_description) ==
    IF use_mock THEN mock_analysis_safe(resume, job_description)
    ELSE LET api_response_maybe == call_openai_api_safe(reply)
             analysis_data ==
                 IF api_response_maybe = NoDict
                 THEN Typed(get_default_analysis)
                 ELSE or_else(parse_response_safe(api_response_maybe.value),
                              Typed(get_default_analysis))
         IN  AnalysisResultM(analysis_data, NoDict, "none")

\* AnalysisResult(...) of create_analysis_result_from_data on decoded data:
\* the id is drawn first, then a key that is missing raises KeyError, then
\* pydantic checks the type of every field.  No value of the model is one
\* that pydantic would convert to the type of its field.
create_analysis_result_safe(result, resume, n, clock) ==
    LET d == result.parsed_data
    IN  IF result.error # "none" \/ ~dict_truthy(d)
        THEN [m |-> result, ids |-> 0]
        ELSE IF ~(DOMAIN AnalysisFields \subseteq DOMAIN d)
        THEN [m |-> AnalysisResultM(d, NoDict, "KeyError"), ids |-> 1]
        ELSE IF \E k \in DOMAIN AnalysisFields : d[k][1] # AnalysisFields[k]
        THEN [m |-> AnalysisResultM(d, NoDict, "ValidationError"), ids |-> 1]
        ELSE [m |-> AnalysisResultM(d,
                        create_analysis_result_from_data(Untyped(d), resume,
                                                         n, clock),
                        "none"),
              ids |-> 1]

handle_error_reraise(error, resume, job_description, n, clock) == Raised(0)

\* the fallback of the last resort: the mock analysis
handle_error(error, resume, job_description, n, clock) ==
    Returned(create_mock_analysis_result(resume, job_description, n, clock), 1)

\* AnalysisResultM.fold as analyze_resume_relevance calls it
AnalysisResultM_fold(m, resume, job_description, n, clock) ==
    IF m.result # NoDict /\ m.error = "none"
    THEN Returned(m.result, 0)
    ELSE handle_error(IF m.error # "none" THEN m.error ELSE "Unknown error",
                      resume, job_description, n, clock)

analyze_resume_relevance(use_mock, reply, resume, job_description, n, clock) ==
    LET analysis_result ==
            analyze_with_rag_safe(use_mock, reply, resume, job_description)
        final_result ==
            create_analysis_result_safe(analysis_result, resume, n, clock)
        folded == AnalysisResultM_fold(final_result.m, resume, job_description,
                                       n + final_result.ids, clock)
    IN  [folded EXCEPT !.ids = @ + final_result.ids]

(***************************************************************************)
(* The replies of the external model, and the analyzer's calls.            *)
(***************************************************************************)
Reply(raises, has_content, content) ==
    [raises |-> raises, has_content |-> has_content, content |-> content]

\* the members of the object the prompt asks for
WellFormed ==
    <<Member("relevance_score", <<"number", Rat(85, 100)>>),
      Member("strengths", <<"array", <<"strength 1">> >>),
      Member("weaknesses", <<"array", <<"weakness 1">> >>),
      Member("recommendations", <<"array", <<"recommendation 1">> >>),
      Member("job_match_percentage", <<"number", Float(85)>>),
      Member("analysis_text", <<"string", <<"a detailed analysis">> >>)>>

Contents ==
    {<<>>,
     <<Text>>,
     <<Text, OpenBrace>>,
     <<CloseBrace, Text, OpenBrace>>,
     <<OpenBrace, Text, CloseBrace>>,
     <<OpenBrace, CloseBrace>>,
     <<OpenBrace>> \o SubSeq(WellFormed, 1, 5) \o <<CloseBrace>>,
     <<OpenBrace, Member("relevance_score", <<"array", <<>> >>)>>
         \o SubSeq(WellFormed, 2, 6) \o <<CloseBrace>>,
     <<OpenBrace>> \o WellFormed \o <<CloseBrace>>,
     <<Text, OpenBrace>> \o WellFormed \o <<CloseBrace, Text>>}

Replies ==
    {Reply(TRUE, FALSE, <<>>), Reply(FALSE, FALSE, <<>>)}
        \cup {Reply(FALSE, TRUE, content) : content \in Contents}

\* the analyzer that uses the mock calls no external model
NoReply == Reply(FALSE, FALSE, <<>>)

\* the candidates and the jobs the analyzer is called on
AnalyzedResumes == {resume \in Resumes : resume.experience \in {0, MaxExperience}}

AnalyzedJobs ==
    {job_description \in JobDescriptions :
        job_description.experience_required \in {0, MaxRequired}}

InitRag ==
    /\ data = <<>>
    /\ now = 0
    /\ nextId = 0
    /\ last = Nothing
    /\ calls = [c \in Callers |-> Idle]
    /\ resume_storage = <<>>
    /\ job_storage = <<>>
    /\ analysis_storage = <<>>
    /\ served = NotServed
    /\ external = NotAnalyzed
    /\ txn = NoTransaction
    /\ retry = NotRun
    /\ \E resume \in AnalyzedResumes, job_description \in AnalyzedJobs :
          scored = [NotScored EXCEPT !.resume = resume,
                                     !.job_description = job_description]

\* one call of analyze_resume_relevance on the resume and the job that were
\* drawn at the start
Analyze(use_mock, reply) ==
    LET out == analyze_resume_relevance(use_mock, reply, scored.resume,
                                        scored.job_description, nextId, now)
    IN  /\ nextId + out.ids <= MaxIds
        /\ external' = [use_mock |-> use_mock, response |-> reply,
                        resume |-> scored.resume,
                        job_description |-> scored.job_description,
                        result |-> out.result, raised |-> out.raised]
        /\ nextId' = nextId + out.ids
        /\ UNCHANGED <<data, now, last, calls, appVars, txn, retry>>

AnalyzeMock == Analyze(TRUE, NoReply)

AnalyzeExternal == \E reply \in Replies : Analyze(FALSE, reply)

NextRag ==
    \/ AnalyzeMock
    \/ AnalyzeExternal
    \/ Tick

SpecRag == InitRag /\ [][NextRag]_vars

(***************************************************************************)
(* The API handlers of src/main.py over the three collections.  A handler  *)
(* is given the parsed JSON body of its request (NoDict: a body that is    *)
(* not a JSON object) and returns its response; what a store call returns  *)
(* to it is the StorageResult of execute_operation.                        *)
(***************************************************************************)
Response(status, body) == [status |-> status, body |-> body]

\* bool(x) of a StorageResult: a dataclass instance defines neither __bool__
\* nor __len__, so it is true whatever it holds
object_truthy(result) == TRUE

\* whether **x can unpack x: a StorageResult is not a mapping
is_mapping(x) == "success" \notin DOMAIN x

\* json.dumps(body) of web.json_response: a StorageResult and a datetime are
\* not JSON serializable
json_serializable(body) ==
    \A k \in DOMAIN body :
        /\ body[k][1] # "time"
        /\ body[k][1] # "result"

\* the handler's view of a StorageResult placed in a response body
AsValue(result) == <<"result", result>>

\* POST /api/resumes and POST /api/jobs: add the body to the collection and
\* answer with the id; the answer is built from the StorageResult itself, so
\* json_response raises and the handler answers 400 after the record is added
create_record(request, collection, n, clock) ==
    LET out == add_item(collection, request, n, clock)
        body == [id |-> AsValue(out.result), message |-> Str(1)]
    IN  [collection |-> out.data,
         response |-> IF json_serializable(body)
                      THEN Response(200, body)
                      ELSE Response(400, [error |-> Str(2)])]

\* a or b
Or(a, b) == IF Truthy(a) THEN a ELSE b

\* d.get(k) where d itself may be lacking: None unless d is a dict with key k
GetIn(hh, path) ==
    IF Len(path) = 1 THEN Get(hh, path[1])
    ELSE IF path[1] \notin DOMAIN hh THEN None
    ELSE IF Len(path) = 2 THEN Get(hh[path[1]], path[2])
    ELSE IF path[2] \notin DOMAIN hh[path[1]] THEN None
    ELSE Get(hh[path[1]][path[2]], path[3])

\* whether the nested dicts of hh hold the whole path
HasIn(hh, path) ==
    /\ path[1] \in DOMAIN hh
    /\ Len(path) >= 2 => path[2] \in DOMAIN hh[path[1]]
    /\ Len(path) >= 3 => path[3] \in DOMAIN hh[path[1]][path[2]]

\* hh.get(k) or [] for a key that holds a list
ListOf(hh, k) == IF k \in DOMAIN hh THEN hh[k] ELSE <<>>

\* " ": a string of whitespace only, which is truthy and which strip()
\* turns into ""
Spaces == <<"str", -1>>

\* whether the string holds more than whitespace; the strings Str(n), n >= 1,
\* are words: they hold no whitespace
has_word(s) == s[2] >= 1

\* f"{a} {b}" for two words: the string "sA sB" is Str(10 * A + B)
Joined(a, b) == Str(10 * a[2] + b[2])

\* f"{first_name} {last_name}".strip(), each of the two a word, "" or Spaces
joined_and_stripped(first_name, last_name) ==
    IF has_word(first_name) /\ has_word(last_name)
    THEN Joined(first_name, last_name)
    ELSE IF has_word(first_name) THEN first_name
    ELSE IF has_word(last_name) THEN last_name
    ELSE Str(0)

\* `name = l.get('name') or l.get('id')` of a language entry is a string:
\* the entry has a name that is not empty, or it has an id (None otherwise,
\* and the entry is dropped)
language_is_named(l) ==
    \/ "name" \in DOMAIN l /\ l.name # ""
    \/ "id" \in DOMAIN l

language_name(l) ==
    IF "name" \in DOMAIN l /\ l.name # "" THEN l.name ELSE l.id

\* hh.get('contact') or hh.get('contacts'): the key that is read, an empty
\* dict being falsy
contact_key(hh) ==
    IF "contact" \in DOMAIN hh /\ hh.contact # EmptyDict
    THEN "contact" ELSE "contacts"

\* map_hh_to_internal: the stored resume built from an hh.ru resume.  The
\* bodies of the model hold strings (a word Str(n), "" or Spaces) under
\* first_name, name, last_name, title, position and email,
\* {total: {months: int}} under experience, lists of strings under
\* key_skills and skills, {level: {name: str}} under education,
\* lists of {name: str, id: str} without a level under language and
\* languages, {email, phone} strings under contact and contacts, and no
\* phones.  The three default texts are in Russian in the source.
map_hh_to_internal(hh) ==
    LET first_name == Or(Or(Get(hh, "first_name"), Get(hh, "name")), Str(0))
        last_name == Or(Get(hh, "last_name"), Str(0))
        stripped == joined_and_stripped(first_name, last_name)
        full_name ==
            IF Truthy(stripped) THEN stripped
            ELSE IF Truthy(Get(hh, "title")) THEN Get(hh, "title")
            ELSE "hh.ru candidate"
        position ==
            IF Truthy(Get(hh, "title")) THEN Get(hh, "title")
            ELSE IF Truthy(Get(hh, "position")) THEN Get(hh, "position")
            ELSE "specialist"
        experience_years ==
            IF HasIn(hh, <<"experience", "total", "months">>)
            THEN max(0, RoundHalfEven(hh.experience.total.months, 12))
            ELSE 0
        key_skills ==
            IF ListOf(hh, "key_skills") # <<>> THEN ListOf(hh, "key_skills")
            ELSE ListOf(hh, "skills")
        education ==
            IF HasIn(hh, <<"education", "level", "name">>)
            THEN hh.education.level.name ELSE "not given"
        langs ==
            IF ListOf(hh, "language") # <<>> THEN ListOf(hh, "language")
            ELSE ListOf(hh, "languages")
        named == SelectSeq(langs, language_is_named)
        contact == <<contact_key(hh)>>
        email == Or(GetIn(hh, contact \o <<"email">>), Get(hh, "email"))
        phone == GetIn(hh, contact \o <<"phone">>)
    IN  [name |-> full_name,
         position |-> position,
         experience |-> experience_years,
         skills |-> key_skills,
         education |-> education,
         languages |-> [i \in 1..Len(named) |-> language_name(named[i])],
         contact_info |-> [email |-> Or(email, Str(0)),
                           phone |-> Or(phone, Str(0))]]

\* POST /api/import/hh: map the body and add it to the resumes; the answer is
\* built from the StorageResult of add_item, so json_response raises and the
\* handler answers 400 after the record is added.  A body that is not an
\* object (null) has no get: it is answered 400 and nothing is added
import_hh_resume(request, collection, n, clock) ==
    LET mapped == map_hh_to_internal(request)
        out == add_item(collection, mapped, n, clock)
        body == [id |-> AsValue(out.result), message |-> Str(1)]
    IN  IF request = NoDict
        THEN [collection |-> collection,
              response |-> Response(400, [error |-> Str(6)])]
        ELSE [collection |-> out.data,
              response |-> IF json_serializable(body)
                           THEN Response(200, body)
                           ELSE Response(400, [error |-> Str(2)])]

\* GET /api/resumes, /api/jobs, /api/analyses: json_response is given the
\* StorageResult of read_all and raises; aiohttp answers 500
list_records(collection) ==
    LET out == read_all(collection)
        body == [records |-> AsValue(out.result)]
    IN  IF json_serializable(body)
        THEN Response(200, body)
        ELSE Response(500, [error |-> Str(2)])

\* Resume(**resume_data) and JobDescription(**job_data) of pydantic
validates(resume_data, job_data) ==
    /\ {"id", "name", "position", "experience", "skills", "education",
        "languages", "contact_info", "created_at", "updated_at"}
           \subseteq DOMAIN resume_data
    /\ {"id", "title", "requirements", "responsibilities", "skills_required",
        "experience_required", "created_at"} \subseteq DOMAIN job_data

\* what analyze_resume does once both records are in hand
analyze_and_persist(resume_data, job_data, analyses, n, clock) ==
    IF ~is_mapping(resume_data) \/ ~is_mapping(job_data) \/
       ~validates(resume_data, job_data)
    THEN [analysis_storage |-> analyses, analyzed |-> FALSE, ids |-> 0,
          response |-> Response(500, [error |-> Str(3)])]
    ELSE LET resume == models_Resume(resume_data["id"], resume_data["name"],
                           resume_data["experience"], resume_data["skills"])
             job == models_JobDescription(job_data["id"],
                           job_data["skills_required"],
                           job_data["experience_required"])
             analysis_dict == create_mock_analysis_result(resume, job, n, clock)
             out == add_item(analyses, analysis_dict, n + 1, clock)
         IN  [analysis_storage |-> out.data, analyzed |-> TRUE, ids |-> 1,
              \* of the values of analysis.dict() only created_at is not a
              \* str, a number or a list of str
              response |-> IF json_serializable(
                                  [created_at |-> analysis_dict.created_at])
                           THEN Response(200, analysis_dict)
                           ELSE Response(500, [error |-> Str(2)])]

\* POST /api/analyze
analyze_resume(request, resumes, jobs, analyses, n, clock) ==
    LET resume_id == Get(request, "resume_id")
        job_id == Get(request, "job_id")
        unchanged(response) ==
            [analysis_storage |-> analyses, analyzed |-> FALSE, ids |-> 0,
             response |-> response]
    IN  IF request = NoDict
        THEN unchanged(Response(500, [error |-> Str(1)]))
        ELSE IF ~Truthy(resume_id) \/ ~Truthy(job_id)
        THEN unchanged(Response(400, [error |-> Str(4)]))
        ELSE LET resume_data == get_item(resumes, resume_id).result
                 job_data == get_item(jobs, job_id).result
             IN  IF ~object_truthy(resume_data) \/ ~object_truthy(job_data)
                 THEN unchanged(Response(404, [error |-> Str(5)]))
                 ELSE analyze_and_persist(resume_data, job_data, analyses,
                                          n, clock)

(***************************************************************************)
(* The requests the application serves.                                    *)
(***************************************************************************)
\* bodies with every field the models require, as test_api.py posts them,
\* without an id or with one of the client's choosing
ResumeBody(name, experience, skills) ==
    [name |-> name, position |-> Str(1), experience |-> experience,
     skills |-> skills, education |-> Str(1), languages |-> <<"ru", "en">>,
     contact_info |-> [email |-> Str(1)]]

JobBody(skills_required, experience_required) ==
    [title |-> Str(1), requirements |-> <<"r">>, responsibilities |-> <<"d">>,
     skills_required |-> skills_required,
     experience_required |-> experience_required]

ResumeBodies ==
    {ResumeBody(Str(1), 4, <<"Python", "Django">>),
     Merge(ResumeBody(Str(1), 1, <<"X">>), [id |-> Str(1)]),
     NoDict}

JobBodies ==
    {JobBody(<<"Python">>, 3),
     Merge(JobBody(<<>>, 2), [id |-> Str(2)]),
     NoDict}

\* hh.ru resumes: one with a first name and four years, an empty one, one
\* with a first and a last name, one with a blank first name, every other
\* field the mapping reads and two and a half years, and null
HhBodies ==
    {[first_name |-> Str(1), experience |-> [total |-> [months |-> 48]]],
     EmptyDict,
     [first_name |-> Str(1), last_name |-> Str(2)],
     [first_name |-> Spaces, title |-> Str(2), position |-> Str(1),
      experience |-> [total |-> [months |-> 30]],
      key_skills |-> <<"Python">>, skills |-> <<"X">>,
      education |-> [level |-> [name |-> Str(1)]],
      languages |-> <<[name |-> "en"], [name |-> ""],
                      [name |-> "", id |-> "ru"]>>,
      contact |-> [email |-> Str(0), phone |-> Str(1)], email |-> Str(2)],
     NoDict}

\* the ids a request can name: those in the collection, the empty string and
\* an id no record has
RequestIds(collection) == ItemIds(collection) \cup {Str(0), Str(3)}

AnalyzeBodies ==
    {NoDict, EmptyDict}
    \cup {[resume_id |-> r] : r \in RequestIds(resume_storage)}
    \cup {[job_id |-> j] : j \in RequestIds(job_storage)}
    \cup {[resume_id |-> r, job_id |-> j] :
              r \in RequestIds(resume_storage), j \in RequestIds(job_storage)}

Served(handler, request, response, analyzed) ==
    [handler |-> handler, request |-> request, status |-> response.status,
     body |-> response.body, analyzed |-> analyzed]

CreateResume(request) ==
    /\ request # NoDict => Len(resume_storage) < MaxLen
    /\ GeneratesId(request) => nextId < MaxIds
    /\ LET out == create_record(request, resume_storage, nextId, now)
       IN  /\ resume_storage' = out.collection
           /\ served' = Served("create_resume", request, out.response, FALSE)
    /\ nextId' = IF GeneratesId(request) THEN nextId + 1 ELSE nextId
    /\ UNCHANGED <<data, now, last, calls, job_storage, analysis_storage, scored, auxVars>>

CreateJob(request) ==
    /\ request # NoDict => Len(job_storage) < MaxLen
    /\ GeneratesId(request) => nextId < MaxIds
    /\ LET out == create_record(request, job_storage, nextId, now)
       IN  /\ job_storage' = out.collection
           /\ served' = Served("create_job", request, out.response, FALSE)
    /\ nextId' = IF GeneratesId(request) THEN nextId + 1 ELSE nextId
    /\ UNCHANGED <<data, now, last, calls, resume_storage, analysis_storage, scored, auxVars>>

ImportHhResume(request) ==
    /\ request # NoDict => Len(resume_storage) < MaxLen /\ nextId < MaxIds
    /\ LET out == import_hh_resume(request, resume_storage, nextId, now)
       IN  /\ resume_storage' = out.collection
           /\ served' = Served("import_hh_resume", request, out.response, FALSE)
    /\ nextId' = IF request # NoDict THEN nextId + 1 ELSE nextId
    /\ UNCHANGED <<data, now, last, calls, job_storage, analysis_storage, scored, auxVars>>

AnalyzeResume(request) ==
    LET out == analyze_resume(request, resume_storage, job_storage,
                              analysis_storage, nextId, now)
    IN  /\ nextId + out.ids <= MaxIds
        /\ analysis_storage' = out.analysis_storage
        /\ served' = Served("analyze_resume", request, out.response, out.analyzed)
        /\ nextId' = nextId + out.ids
        /\ UNCHANGED <<data, now, last, calls, resume_storage, job_storage, scored, auxVars>>

GetRecords(handler, collection) ==
    /\ served' = Served(handler, NoDict, list_records(collection), FALSE)
    /\ UNCHANGED <<data, now, nextId, last, calls, resume_storage, job_storage,
                   analysis_storage, scored, auxVars>>

GetResumes == GetRecords("get_resumes", resume_storage)

GetJobs == GetRecords("get_jobs", job_storage)

GetAnalyses == GetRecords("get_analyses", analysis_storage)

NextApp ==
    \/ \E request \in ResumeBodies : CreateResume(request)
    \/ \E request \in JobBodies : CreateJob(request)
    \/ \E request \in HhBodies : ImportHhResume(request)
    \/ \E request \in AnalyzeBodies : AnalyzeResume(request)
    \/ GetResumes
    \/ GetJobs
    \/ GetAnalyses
    \/ Tick

SpecApp == Init /\ [][NextApp]_vars

(***************************************************************************)
(* The claims of the record store.  A claim about what one call does is a  *)
(* property of every step that call can take: [][Call => Outcome]_vars.    *)
(***************************************************************************)
MetaKeys == {"id", "created_at", "updated_at"}

HasId(d, item_id) == \E i \in 1..Len(d) : Get(d[i], "id") = item_id

\* no two records of d have the same id
DistinctIds(d) ==
    \A i, j \in 1..Len(d) : i # j => Get(d[i], "id") # Get(d[j], "id")

\* C1: after any sequence of addItem, updateItem and deleteItem calls, with
\* any field maps, no two records of the collection have the same id: each
\* of these calls, made on a collection whose ids are distinct, leaves a
\* collection whose ids are distinct.
C1_UniqueIds ==
    [][( /\ last'.op.action \in {"add_item", "update_item", "delete_item"}
         /\ DistinctIds(data) ) => DistinctIds(data')]_vars

\* C2, as stated: two concurrent addItem calls that both completed read the
\* same prior state, both report success with an id, and the collection is
\* that prior state followed by the record of one of them only.
C2_LostUpdateRace ==
    (\A c \in Callers : calls[c].pc = "done" /\ calls[c].overlapped) =>
        /\ calls[1].snapshot = calls[2].snapshot
        /\ \A c \in Callers : is_success(calls[c].result)
        /\ \E c \in Callers :
              data = calls[c].snapshot \o <<calls[c].enriched_item>>

\* C2, amended: an addItem call reads and writes the collection within one
\* step of the event loop, so no addition is lost: a completed call reports
\* success, the collection still starts with the list the call read followed
\* by the call's record, and no two completed calls read the same list.
C2_NoLostUpdate ==
    /\ \A c \in Callers :
          calls[c].pc = "done" =>
             /\ is_success(calls[c].result)
             /\ calls[c].result.data = calls[c].enriched_item["id"]
             /\ Len(data) > Len(calls[c].snapshot)
             /\ SubSeq(data, 1, Len(calls[c].snapshot)) = calls[c].snapshot
             /\ data[Len(calls[c].snapshot) + 1] = calls[c].enriched_item
    /\ \A c, o \in Callers :
          (c # o /\ calls[c].pc = "done" /\ calls[o].pc = "done") =>
             calls[c].snapshot # calls[o].snapshot

\* two calls that were in flight together have both completed
C2_Witness ==
    /\ \A c \in Callers : calls[c].pc = "done" /\ calls[c].overlapped
    /\ Len(data) = 2
    /\ \E c, o \in Callers :
          /\ c # o
          /\ data[1] = calls[c].enriched_item
          /\ data[2] = calls[o].enriched_item

\* C3: when addItem(x) succeeds and returns id, a getItem(id) right after it
\* returns a record whose id is the returned id and whose fields are those of
\* x plus id, created_at and updated_at.
C3_RoundTrip ==
    [][\A item \in AddInputs :
          ( /\ last'.op.action = "get_item"
            /\ last.op.action = "add_item"
            /\ is_success(last.result)
            /\ last.arg = item
            /\ GetItem(last.result.data) ) =>
          ( /\ last'.result.dtype = "item"
            /\ Get(last'.result.data, "id") = last.result.data
            /\ DOMAIN last'.result.data = (DOMAIN item) \cup MetaKeys
            /\ \A k \in (DOMAIN item) \ MetaKeys :
                  last'.result.data[k] = item[k] )]_vars

\* C4: deleteItem and updateItem addressed to an id that no record has
\* report not-found (data False) and leave the collection as it was.
C4_NotFoundUnchanged ==
    [][\A item_id \in ItemIds(data) :
          ( /\ last'.op.action \in {"delete_item", "update_item"}
            /\ ~HasId(data, item_id)
            /\ \/ DeleteItem(item_id)
               \/ \E updates \in FieldMaps : UpdateItem(item_id, updates) ) =>
          ( /\ data' = data
            /\ is_success(last'.result)
            /\ last'.result.dtype = "bool"
            /\ last'.result.data = FALSE )]_vars

\* a delete of an absent id has been answered on a collection that holds records
C4_Witness ==
    /\ last.op.action = "delete_item"
    /\ last.result.dtype = "bool"
    /\ last.result.data = FALSE
    /\ Len(data) >= 1

\* C5: updateItem on an existing id changes, in each record that has the id,
\* only the keys of partialFields and updated_at, which becomes the store's
\* current time even when partialFields carries an updated_at; the record's
\* other fields, the records with another id and the order stay as they were.
C5_UpdateFrame ==
    [][\A item_id \in ItemIds(data), updates \in FieldMaps :
          ( /\ last'.op.action = "update_item"
            /\ HasId(data, item_id)
            /\ UpdateItem(item_id, updates) ) =>
          ( /\ last'.result.dtype = "bool"
            /\ last'.result.data = TRUE
            /\ Len(data') = Len(data)
            /\ \A i \in 1..Len(data) :
                  IF Get(data[i], "id") = item_id
                  THEN /\ DOMAIN data'[i] =
                             (DOMAIN data[i]) \cup (DOMAIN updates) \cup {"updated_at"}
                       /\ data'[i]["updated_at"] = Time(now)
                       /\ \A k \in (DOMAIN updates) \ {"updated_at"} :
                             data'[i][k] = updates[k]
                       /\ \A k \in (DOMAIN data[i]) \ ((DOMAIN updates) \cup {"updated_at"}) :
                             data'[i][k] = data[i][k]
                  ELSE data'[i] = data[i] )]_vars

\* an update has refreshed one record of two and left the older one alone
C5_Witness ==
    /\ last.op.action = "update_item"
    /\ last.result.dtype = "bool"
    /\ last.result.data = TRUE
    /\ Len(data) = 2
    /\ now >= 1
    /\ Get(data[1], "updated_at") = Time(now)
    /\ Get(data[2], "updated_at") = Time(0)

\* C6: readAll right after readAll returns the same sequence, every readAll
\* returns the collection, and readAll, getItem and findItems leave the
\* collection as it was.
C6_ReadsIdempotent ==
    [][ /\ (last'.op.action = "read_all" /\ ReadAll) =>
             /\ data' = data
             /\ last'.result.dtype = "list"
             /\ last'.result.data = data
             /\ last.op.action = "read_all" => last'.result = last.result
        /\ \A item_id \in ItemIds(data) :
              ( /\ last'.op.action = "get_item"
                /\ last'.op.item_id = item_id
                /\ GetItem(item_id) ) => data' = data
        /\ \A filters \in FilterMaps :
              ( /\ last'.op.action = "find_items"
                /\ last'.op.filters = filters
                /\ FindItems(filters) ) => data' = data ]_vars

\* readAll has been called twice in a row on a collection that holds records
C6_Witness ==
    /\ last.op.action = "read_all"
    /\ last.again
    /\ Len(data) >= 1
    /\ last.result.data = data

\* a record matches a filter map, a lacking key never matching
MatchesStrict(filters, item) ==
    \A k \in DOMAIN filters : k \in DOMAIN item /\ item[k] = filters[k]

\* a record matches a filter map, a lacking key counting as None
MatchesOrNone(filters, item) ==
    \A k \in DOMAIN filters :
        IF k \in DOMAIN item THEN item[k] = filters[k] ELSE filters[k] = None

\* C7, as stated: findItems returns, in storage order, exactly the records
\* that hold every key of the filter map with the filter's value; a record
\* lacking a filtered key is never returned.
C7_FindStrict ==
    [][\A filters \in FilterMaps :
          (last'.op.action = "find_items" /\ FindItems(filters)) =>
             /\ last'.result.dtype = "list"
             /\ last'.result.data =
                   SelectSeq(data, LAMBDA item : MatchesStrict(filters, item))]_vars

\* C7, amended: findItems returns, in storage order, exactly the records
\* that agree with the filter map on every key of it, a record that lacks a
\* key counting as holding None for it (so it matches a filter value None);
\* an empty filter map returns the whole collection.
C7_FindOrNone ==
    [][\A filters \in FilterMaps :
          (last'.op.action = "find_items" /\ FindItems(filters)) =>
             /\ last'.result.dtype = "list"
             /\ last'.result.data =
                   SelectSeq(data, LAMBDA item : MatchesOrNone(filters, item))
             /\ filters = EmptyDict => last'.result.data = data]_vars

\* a filter on name = None has returned a record without a name, and not all
C7_Witness ==
    /\ last.op.action = "find_items"
    /\ last.arg = [name |-> None]
    /\ Len(last.result.data) >= 1
    /\ Len(last.result.data) < Len(data)
    /\ \A i \in 1..Len(last.result.data) : "name" \notin DOMAIN last.result.data[i]

\* C8: no updateItem, whatever its partialFields, changes the id of a record.
C8_IdImmutable ==
    [][\A item_id \in ItemIds(data), updates \in FieldMaps :
          (last'.op.action = "update_item" /\ UpdateItem(item_id, updates)) =>
             /\ Len(data') = Len(data)
             /\ \A i \in 1..Len(data) :
                   Get(data'[i], "id") = Get(data[i], "id")]_vars

\* C9: addItem stamps created_at with the store's time, no updateItem changes
\* a record's created_at, and a successful updateItem never moves updated_at
\* back.
C9_CreatedAtSetOnce ==
    [][ /\ \A item \in FieldMaps :
             (last'.op.action = "add_item" /\ AddItem(item)) =>
                data'[Len(data')]["created_at"] = Time(now)
        /\ \A item_id \in ItemIds(data), updates \in FieldMaps :
             (last'.op.action = "update_item" /\ UpdateItem(item_id, updates)) =>
                /\ Len(data') = Len(data)
                /\ \A i \in 1..Len(data) :
                      /\ Get(data'[i], "created_at") = Get(data[i], "created_at")
                      /\ "updated_at" \in DOMAIN data[i] =>
                            data'[i]["updated_at"][2] >= data[i]["updated_at"][2] ]_vars

\* C10: a successful addItem leaves the collection as it was, followed by one
\* new record that carries the returned id, and leaves the caller's map as
\* it was.
C10_AddAppends ==
    [][\A item \in AddInputs :
          ( /\ last'.op.action = "add_item"
            /\ AddItem(item)
            /\ is_success(last'.result) ) =>
             /\ Len(data') = Len(data) + 1
             /\ SubSeq(data', 1, Len(data)) = data
             /\ last'.result.dtype = "id"
             /\ data'[Len(data')]["id"] = last'.result.data
             /\ last'.arg = item]_vars

\* an addItem has appended a second record after an older one
C10_Witness ==
    /\ last.op.action = "add_item"
    /\ is_success(last.result)
    /\ Len(data) = 2
    /\ data[2]["id"] = last.result.data
    /\ last.arg \in FieldMaps
    /\ last.arg # data[2]
    /\ data[1] # data[2]

(***************************************************************************)
(* The claims of the mock relevance scorer, over SpecScore.                *)
(***************************************************************************)
ScoreFields ==
    {"relevance_score", "job_match_percentage", "strengths", "weaknesses",
     "recommendations", "analysis_text"}

Scored == scored.result # NoDict

\* the score as the specification writes it:
\* S = (100*overlap/max(n,1) + 100*min(exp/max(req,1), 1)) / 200
SpecifiedScore(resume, job_description) ==
    LET overlap == Cardinality({s \in Range(resume.skills) :
                       \E i \in 1..Len(job_description.skills_required) :
                           job_description.skills_required[i] = s})
        n == IF job_description.skills_required = <<>>
             THEN 1 ELSE Len(job_description.skills_required)
        req == IF job_description.experience_required < 1
               THEN 1 ELSE job_description.experience_required
        exp == resume.experience
        ratio == IF exp >= req THEN Rat(1, 1) ELSE Rat(exp, req)
    IN  Rat(100 * overlap * ratio.den + 100 * ratio.num * n,
            200 * n * ratio.den)

Demo ==
    /\ scored.resume.experience = 4
    /\ scored.resume.skills = <<"Python", "Django", "PostgreSQL", "Docker", "Git">>
    /\ scored.job_description.experience_required = 3
    /\ scored.job_description.skills_required =
           <<"Python", "Django", "PostgreSQL", "Docker", "Redis">>

\* C12: for every candidate and job accepted by the models (any integer
\* experience, any skill lists) relevance_score is in [0.0, 1.0] and
\* job_match_percentage is in [0.0, 100.0]
C12_ScoreInRange ==
    Scored =>
        /\ RatLeq(Float(0), scored.result.relevance_score)
        /\ RatLeq(scored.result.relevance_score, Float(1))
        /\ RatLeq(Float(0), scored.result.job_match_percentage)
        /\ RatLeq(scored.result.job_match_percentage, Float(100))

\* C13 as claimed: job_match_percentage equals round(relevance_score * 100, 1)
\* of the already rounded relevance_score of the same call
C13_MatchFromRounded ==
    Scored =>
        scored.result.job_match_percentage =
            round(RatMul(scored.result.relevance_score, Float(100)), 1)

\* C13 as amended: job_match_percentage equals round(S * 100, 1) of the
\* unrounded score S, of which relevance_score is the rounding to 2 decimals;
\* it lies within 0.5 of relevance_score * 100
C13_MatchFromUnrounded ==
    Scored =>
        LET S == SpecifiedScore(scored.resume, scored.job_description)
            pct == scored.result.job_match_percentage
            rel100 == RatMul(scored.result.relevance_score, Float(100))
        IN  /\ pct = round(RatMul(S, Float(100)), 1)
            /\ RatLeq(pct, RatAdd(rel100, Rat(1, 2)))
            /\ RatLeq(rel100, RatAdd(pct, Rat(1, 2)))

\* a call whose percentage is not the rounded score times 100
C13_Witness ==
    /\ Scored
    /\ scored.result.relevance_score = Rat(17, 100)
    /\ scored.result.job_match_percentage = Rat(167, 10)

\* C14: when the job requires no skills the skill match contributes 0 whatever
\* the candidate's skills: relevance_score =
\* round(min(experience / max(experience_required, 1), 1) / 2, 2); experience 1
\* with skills [X] against experience_required 2 gives 0.25 and 25.0
C14_NoRequiredSkills ==
    (Scored /\ scored.job_description.skills_required = <<>>) =>
        LET exp == scored.resume.experience
            req == scored.job_description.experience_required
            ratio == RatDiv(Float(exp), Float(IF req > 1 THEN req ELSE 1))
            capped == IF RatLeq(ratio, Float(1)) THEN ratio ELSE Float(1)
        IN  /\ scored.result.relevance_score = round(RatDiv(capped, Float(2)), 2)
            /\ (exp = 1 /\ req = 2 /\ scored.resume.skills = <<"X">>) =>
                   /\ scored.result.relevance_score = Rat(25, 100)
                   /\ scored.result.job_match_percentage = Rat(250, 10)

\* the example of C14 has been scored
C14_Witness ==
    /\ Scored
    /\ scored.job_description.skills_required = <<>>
    /\ scored.job_description.experience_required = 2
    /\ scored.resume.experience = 1
    /\ scored.resume.skills = <<"X">>
    /\ scored.result.relevance_score = Rat(25, 100)

\* C15: relevance_score = round(S, 2) and job_match_percentage =
\* round(S * 100, 1) for S = (100*overlap/max(n,1) + 100*min(exp/max(req,1), 1))
\* / 200; the demo inputs give 0.9 and 90.0
C15_ScoreFormula ==
    Scored =>
        LET S == SpecifiedScore(scored.resume, scored.job_description)
        IN  /\ scored.result.relevance_score = round(S, 2)
            /\ scored.result.job_match_percentage = round(RatMul(S, Float(100)), 1)
            /\ Demo => /\ scored.result.relevance_score = Rat(90, 100)
                       /\ scored.result.job_match_percentage = Rat(900, 10)

\* the demo inputs have been scored
C15_Witness ==
    /\ Scored
    /\ Demo
    /\ scored.result.relevance_score = Rat(90, 100)

\* C16: a job that asks for 0 years is scored as the same job asking for 1
\* year, in every field of the output, and the experience ratio is at most 1.0
C16_ZeroIsOne ==
    Scored =>
        /\ RatLeq(experience_match(scored.resume, scored.job_description), Float(1))
        /\ scored.job_description.experience_required = 0 =>
              LET one == [scored.job_description EXCEPT !.experience_required = 1]
                  d == calculate_mock_analysis(scored.resume, one)
              IN  \A f \in ScoreFields : scored.result[f] = d[f]

\* a candidate with years to spare has been scored against a job asking for 0
C16_Witness ==
    /\ Scored
    /\ scored.job_description.experience_required = 0
    /\ scored.resume.experience >= 2
    /\ scored.job_description.skills_required = <<>>
    /\ scored.result.relevance_score = Rat(50, 100)


(***************************************************************************)
(* The claims of the analysis handler, over SpecApp.                       *)
(***************************************************************************)
Supplied(request, key) == request # NoDict /\ Truthy(Get(request, key))

\* the request's body holds no resume_id or no job_id, or an empty one; a
\* body that is not an object holds neither
Missing(request, key) == ~Supplied(request, key)

\* C17: an analysis request in which resume_id or job_id is missing (absent
\* or empty) is answered with the client error 400; no record is added to
\* the analyses, no id is drawn and the scorer is not called
C17_MissingIds ==
    [][served'.handler = "analyze_resume" =>
       \A request \in AnalyzeBodies :
          (/\ Missing(request, "resume_id") \/ Missing(request, "job_id")
           /\ served'.request = request
           /\ AnalyzeResume(request))
          => /\ served'.status = 400
             /\ analysis_storage' = analysis_storage
             /\ ~served'.analyzed
             /\ nextId' = nextId]_vars

\* C18: an analysis request whose resume_id or job_id is supplied and matches
\* no record of its collection is answered with the not-found error 404, and
\* the analyses are unchanged
C18_NotFound ==
    [][\A request \in AnalyzeBodies :
          (/\ AnalyzeResume(request)
           /\ Supplied(request, "resume_id")
           /\ Supplied(request, "job_id")
           /\ \/ ~HasId(resume_storage, request["resume_id"])
              \/ ~HasId(job_storage, request["job_id"]))
          => /\ served'.status = 404
             /\ analysis_storage' = analysis_storage]_vars

(***************************************************************************)
(* Claims about the analyzer's path through the external model.            *)
(***************************************************************************)
\* analyze_resume_relevance has been called
Analyzed == external.resume # NoDict

\* the call went to the external model
AnalyzedExternally == Analyzed /\ ~external.use_mock

\* the external model gave no response: the call failed or returned nothing
Absent(reply) == reply.raises \/ ~reply.has_content

\* no JSON object can be extracted from the response
Unparsable(reply) ==
    /\ ~Absent(reply)
    /\ parse_response_safe(reply.content) = NoDict

\* two floats are equal
RatEq(a, b) == a.num * b.den = b.num * a.den

\* the six fields of an analysis are those of the data
SameAnalysis(result, d) ==
    /\ RatEq(result.relevance_score, d.relevance_score)
    /\ RatEq(result.job_match_percentage, d.job_match_percentage)
    /\ result.strengths = d.strengths
    /\ result.weaknesses = d.weaknesses
    /\ result.recommendations = d.recommendations
    /\ result.analysis_text = d.analysis_text

\* C21: when the external analyzer is used and its response is absent or
\* unparsable, the analysis returned has the six fields that the mock scorer
\* computes for the same candidate and job
C21_FallbackIsMock ==
    (/\ AnalyzedExternally
     /\ Absent(external.response) \/ Unparsable(external.response))
    => /\ ~external.raised
       /\ SameAnalysis(external.result,
                       calculate_mock_analysis(external.resume,
                                               external.job_description))

\* C22: whatever the external model does (it raises, returns no content, text
\* without JSON, an object that is empty or lacks a required key, or the
\* object asked for), analyze_resume_relevance raises nothing and returns an
\* analysis of the given candidate with all its fields
C22_NeverHardFails ==
    AnalyzedExternally
    => /\ ~external.raised
       /\ external.result # NoDict
       /\ DOMAIN external.result =
              ScoreFields \cup {"id", "resume_id", "created_at"}
       /\ external.result.resume_id = external.resume.id

\* the external model answered with an object that lacks analysis_text, and
\* the call returned the mock analysis
C22_Witness ==
    /\ AnalyzedExternally
    /\ external.response.has_content
    /\ parse_response_safe(external.response.content) # NoDict
    /\ "relevance_score" \in DOMAIN parse_response_safe(external.response.content)
    /\ "analysis_text" \notin DOMAIN parse_response_safe(external.response.content)
    /\ ~external.raised
    /\ SameAnalysis(external.result,
                    calculate_mock_analysis(external.resume,
                                            external.job_description))

\* the same skills, whatever their order and however often each is repeated
SameSkills(a, b) == Range(a) = Range(b)

\* C24: the scorer treats skill lists as sets: a candidate and a job that
\* differ from the scored ones only in the order and the repetitions of their
\* skills are given the same relevance_score and job_match_percentage
C24_SkillListsAreSets ==
    Scored =>
        \A resume \in Resumes, job_description \in JobDescriptions :
            (/\ resume.experience = scored.resume.experience
             /\ job_description.experience_required
                    = scored.job_description.experience_required
             /\ SameSkills(resume.skills, scored.resume.skills)
             /\ SameSkills(job_description.skills_required,
                           scored.job_description.skills_required))
            => LET d == calculate_mock_analysis(resume, job_description)
               IN  /\ RatEq(d.relevance_score, scored.result.relevance_score)
                   /\ RatEq(d.job_match_percentage,
                            scored.result.job_match_percentage)

(***************************************************************************)
(* Claims about failures, transactions, retries and fold.                  *)
(***************************************************************************)
\* the call that has just completed cannot be processed: its action is
\* unknown, or it is add_item with no data
CannotBeProcessed(operation) ==
    \/ operation.action \in UnknownActions
    \/ operation.action = "add_item" /\ operation.data = NoDict

\* C26: execute_operation never raises: a call whose action is unknown, or
\* whose processing raises (add_item with no data), returns a failed result
\* that carries the error, and every call that returns a failed result leaves
\* the collection as it was before the call
C26_FailsOutright ==
    [][last'.op.action # "none"
       => /\ last'.result.success \in BOOLEAN
          /\ CannotBeProcessed(last'.op)
                => /\ ~is_success(last'.result)
                   /\ ~last'.result.success
                   /\ last'.result.error \in {"ValueError", "TypeError"}
                   /\ last'.result.dtype = "none"
          /\ ~is_success(last'.result) => data' = data]_vars

\* a call of add_item with no data has
\* failed with TypeError on a collection that holds a record
C26_Witness ==
    /\ CannotBeProcessed(last.op)
    /\ ~is_success(last.result)
    /\ last.result.error = (IF last.op.action = "add_item"
                            THEN "TypeError" ELSE "ValueError")
    /\ last.op.action = "add_item"
    /\ Len(data) > 0

\* the operations applied one after another, whatever their results
RECURSIVE Sequentially(_, _, _, _, _)
Sequentially(d, operations, i, n, clock) ==
    IF i > Len(operations) THEN d
    ELSE Sequentially(execute_operation(d, operations[i], n, clock).data,
                      operations, i + 1, n + Draws(operations[i]), clock)

\* the index of the first operation that returns a failed result, 0 if none
FirstFailing(operations) ==
    LET failing == {i \in 1 .. Len(operations) : CannotBeProcessed(operations[i])}
    IN  IF failing = {} THEN 0
        ELSE CHOOSE i \in failing : \A j \in failing : i <= j

\* C27: transactional_operation, run without interleaving, is all or nothing:
\* if an operation returns a failed result no later operation is executed,
\* the overall result is a failure and the collection is as before the
\* transaction; if none fails the result is a success and the collection is
\* that of the operations applied one after another in the given order
C27_AllOrNothing ==
    [][\A operations \in Transactions :
          (/\ txn'.kind = "transactional_operation"
           /\ txn'.operations = operations
           /\ TransactionalOperation(operations))
          => IF FirstFailing(operations) # 0
             THEN /\ ~is_success(txn'.result)
                  /\ txn'.result.error = "Transaction failed"
                  /\ Len(txn'.result.data) = FirstFailing(operations)
                  /\ \A i \in 1 .. FirstFailing(operations) - 1 :
                         is_success(txn'.result.data[i])
                  /\ ~is_success(txn'.result.data[FirstFailing(operations)])
                  /\ nextId' = nextId
                        + Cardinality({i \in 1 .. FirstFailing(operations) :
                                          Draws(operations[i]) = 1})
                  /\ data' = data
             ELSE /\ is_success(txn'.result)
                  /\ Len(txn'.result.data) = Len(operations)
                  /\ \A i \in 1 .. Len(operations) :
                         is_success(txn'.result.data[i])
                  /\ data' = Sequentially(data, operations, 1, nextId, now)]_vars

\* a transaction has added a record, met an operation that fails and been
\* rolled back without executing its third operation, on a collection that
\* held a record
C27_Witness ==
    /\ txn.kind = "transactional_operation"
    /\ Len(txn.operations) = 3
    /\ txn.operations[1].action = "add_item"
    /\ txn.operations[1].data # NoDict
    /\ ~is_success(txn.result)
    /\ Len(txn.result.data) = 2
    /\ Len(txn.original_data) = 1
    /\ data = txn.original_data

\* C28: the rollback of a failed transaction discards only the effects of the
\* transaction: a record that another caller's add_item added after the
\* snapshot was taken and before the rollback is in the collection after the
\* rollback
C28_RollbackKeepsOthers ==
    txn.pc = "rolled_back"
    => \A i \in 1 .. Len(txn.others) :
           \E j \in 1 .. Len(data) : data[j] = txn.others[i]

\* the invocations of the function so far have all raised
AllRaised(run) == \A k \in 1 .. run.invoked : run.outcomes[k] = Raises(k)

\* C29: a function wrapped by retry_on_failure(max_attempts) is invoked at
\* most max_attempts times; the wrapper returns the value of the first
\* invocation that does not raise and invokes the function no more; while
\* every invocation has raised it goes on to the next, and when max_attempts
\* invocations have raised it raises the exception of the last one; with
\* max_attempts = 0 it raises without invoking the function
C29_RetryBounded ==
    /\ retry.invoked <= max(0, retry.max_attempts)
    /\ retry.pc = "returned"
          => /\ retry.invoked >= 1
             /\ retry.returned = Value(retry.invoked)
             /\ retry.outcomes[retry.invoked] = Value(retry.invoked)
             /\ \A k \in 1 .. retry.invoked - 1 : retry.outcomes[k] = Raises(k)
             /\ retry.raised = None
    /\ retry.pc = "running"
          => /\ retry.invoked < retry.max_attempts
             /\ AllRaised(retry)
             /\ ENABLED Attempt
    /\ retry.pc = "raised"
          => /\ AllRaised(retry)
             /\ retry.returned = None
             /\ retry.invoked = max(0, retry.max_attempts)
             /\ retry.raised = (IF retry.max_attempts >= 1
                                THEN Raises(retry.max_attempts)
                                ELSE AllAttemptsFailed)

\* the function raised twice and returned at its third invocation, which was
\* the last one allowed
C29_Witness ==
    /\ retry.pc = "returned"
    /\ retry.max_attempts = 3
    /\ retry.invoked = 3
    /\ retry.returned = Value(3)
    /\ retry.outcomes[4] = Raises(4)

\* the branch fold takes on the result of the call that has just completed
Folded == fold(last.result)

\* C30: fold calls exactly one of its two branches: success_func with the data
\* if and only if the result is successful and its data is not None, and
\* error_func otherwise; so the result of get_item for an absent id goes to
\* the error branch, and the results of read_all on an empty collection and
\* of update_item and delete_item for an absent id go to the success branch
C30_FoldBranches ==
    last.op.action # "none"
    => /\ Len(Folded) = 1
       /\ Folded[1].func \in {"success_func", "error_func"}
       /\ Folded[1].func = "success_func"
             <=> (is_success(last.result) /\ data_is_not_none(last.result))
       /\ (last.op.action = "get_item" /\ ~HasId(data, last.op.item_id))
             => /\ is_success(last.result)
                /\ Folded[1].func = "error_func"
                /\ Folded[1].error = "Unknown error"
       /\ (last.op.action = "read_all" /\ data = <<>>)
             => /\ Folded[1].func = "success_func"
                /\ Folded[1].data = <<>>
       /\ (/\ last.op.action \in {"update_item", "delete_item"}
           /\ last.result.dtype = "bool"
           /\ ~last.result.data)
             => /\ Folded[1].func = "success_func"
                /\ Folded[1].data = FALSE
       /\ ~is_success(last.result)
             => /\ Folded[1].func = "error_func"
                /\ Folded[1].error = last.result.error

\* get_item for an id that no record of a collection with a record has was
\* successful and folded into the error branch
C30_Witness ==
    /\ last.op.action = "get_item"
    /\ Len(data) > 0
    /\ ~HasId(data, last.op.item_id)
    /\ is_success(last.result)
    /\ Folded[1].func = "error_func"

=============================================================================
